---- MODULE Spec2Model ----
(***************************************************************************)
(* mcstatus: the Connection codec (mcstatus/protocol/connection.py) and    *)
(* the retry loops of MinecraftServer (mcstatus/server.py).                *)
(*                                                                         *)
(* Python integers are unbounded, and the varint code is exercised up to   *)
(* 2^35 and beyond, which TLC's 32-bit integers cannot hold.  A Python int *)
(* is therefore the record [hi, lo] standing for hi * 2^16 + lo with       *)
(* 0 <= lo < 2^16 (hi is negative for a negative number, as in two's       *)
(* complement), and the bit operators of the code are computed on it.      *)
(*                                                                         *)
(* Three specifications share the variables: Spec, one writing call whose  *)
(* bytes travel to a connection of any class and one reading call there;   *)
(* SpecBuffer, calls made one after another on two buffered connections;   *)
(* SpecRetry, the retry loops of ping, status and query.                   *)
(***************************************************************************)
EXTENDS Integers, Sequences, FiniteSets, TLC

\* ------------------------------------------------------------------ bounds

\* write_varint is tried on every value 0..MaxSmall ...
MaxSmall == 130
\* ... and on 2^k - 1, 2^k, 2^k + 1 for every k <= MaxExp.
MaxExp == 36
\* Strings have at most MaxStrLen characters.
MaxStrLen == 2
\* Enumerated sub-packet bodies have at most MaxBufLen bytes.
MaxBufLen == 2
\* At most MaxDgrams datagrams arrive on a datagram connection.
MaxDgrams == 3
\* Raw data handed to receive() has at most MaxRawLen bytes.
MaxRawLen == 5
\* A stream may be cut into chunks at any of its first MaxCut byte boundaries.
MaxCut == 3
\* read(n) is called with 0 <= n <= MaxRead.
MaxRead == 3

\* --------------------------------------------------------- Python integers

Limb == 2^16

PyInt(h, l) == [hi |-> h, lo |-> l]

FromNat(n) == PyInt(n \div Limb, n % Limb)

Zero == FromNat(0)

IsZero(x) == x.hi = 0 /\ x.lo = 0

\* x < y
Less(x, y) == x.hi < y.hi \/ (x.hi = y.hi /\ x.lo < y.lo)

RECURSIVE BitAnd(_, _)
BitAnd(a, b) ==
    IF a = 0 \/ b = 0 THEN 0
    ELSE (IF a % 2 = 1 /\ b % 2 = 1 THEN 1 ELSE 0) + 2 * BitAnd(a \div 2, b \div 2)

RECURSIVE BitOr(_, _)
BitOr(a, b) ==
    IF a = 0 THEN b
    ELSE IF b = 0 THEN a
    ELSE (IF a % 2 = 1 \/ b % 2 = 1 THEN 1 ELSE 0) + 2 * BitOr(a \div 2, b \div 2)

\* ~x
Invert(x) == PyInt(-x.hi - 1, Limb - 1 - x.lo)

\* x & y, one of the two having all its bits above the low limb equal
\* (a mask such as 0x7F or ~0x7F), or both non-negative.
And(x, y) ==
    PyInt(CASE y.hi = 0 -> 0
            [] y.hi = -1 -> x.hi
            [] x.hi = 0 -> 0
            [] x.hi = -1 -> y.hi
            [] OTHER -> BitAnd(x.hi, y.hi),
          BitAnd(x.lo, y.lo))

\* x | y for non-negative x and y
Or(x, y) == PyInt(BitOr(x.hi, y.hi), BitOr(x.lo, y.lo))

\* x >> k for 0 <= k < 16
Shr(x, k) ==
    PyInt(x.hi \div 2^k, (x.hi % 2^k) * 2^(16 - k) + (x.lo \div 2^k))

\* x << k for x >= 0: first by k % 16 bits, then by whole limbs
Shl(x, k) ==
    LET r == k % 16
        s == PyInt(x.hi * 2^r + (x.lo \div 2^(16 - r)), (x.lo % 2^(16 - r)) * 2^r)
    IN  IF k < 16 THEN s
        ELSE PyInt((s.hi * Limb + s.lo) * 2^(k - r - 16), 0)

\* ------------------------------------------------------------------ values

Min(a, b) == IF a < b THEN a ELSE b

Take(s, n) == SubSeq(s, 1, Min(n, Len(s)))

Drop(s, n) == SubSeq(s, Min(n, Len(s)) + 1, Len(s))

\* The bytes of the chunks or datagrams, in order.
RECURSIVE Flatten(_)
Flatten(ss) == IF ss = <<>> THEN <<>> ELSE Head(ss) \o Flatten(Tail(ss))

\* A bytes-like value (bytes, bytearray) or a str; the str that the code
\* produces is the empty one.
Bytes(b) == [tag |-> "bytes", bytes |-> b]

Str(b) == [tag |-> "str", bytes |-> b]

\* The outcome of a call: exc is "" for a return, else the exception class.
\* chunks: what the stream still delivers, eof: the peer closes after it;
\* dgrams: the datagrams still to arrive.
NoConn ==
    [kind |-> "none", sent |-> Bytes(<<>>), received |-> <<>>,
     chunks |-> <<>>, eof |-> FALSE, dgrams |-> <<>>]

\* An integer result is top * 2^32 + int (top is 0 but for the 8-byte reads).
Outcome(e, c) ==
    [exc |-> e, conn |-> c, bytes |-> <<>>, data |-> Bytes(<<>>), int |-> Zero,
     top |-> Zero, str |-> <<>>, sub |-> NoConn, arg |-> NoConn,
     awaitable |-> TRUE]

Return(c) == Outcome("", c)

Raise(e, c) == Outcome(e, c)

\* A call that never returns: a receive on a stream that is silent but open.
Blocked(c) == Outcome("<blocked>", c)

\* A call that never returns: a loop whose pass has changed nothing, and that
\* therefore repeats that pass for ever.
Loops(c) == Outcome("<loops>", c)

\* -------------------------------------------------------------- Connection

\* Connection.__init__
Connection ==
    [kind |-> "buffered", sent |-> Bytes(<<>>), received |-> <<>>,
     chunks |-> <<>>, eof |-> FALSE, dgrams |-> <<>>]

\* A buffered read that hands the bytes out and leaves them in the queue.
BufferedReadPeek(c, length) ==
    LET n == IF Less(length, FromNat(Len(c.received))) THEN length.lo
             ELSE Len(c.received)
    IN  [Return(c) EXCEPT !.bytes = Take(c.received, n)]

\* Connection.read: a short slice when fewer than length bytes are queued.
BufferedRead(c, length) ==
    LET n == IF Less(length, FromNat(Len(c.received))) THEN length.lo
             ELSE Len(c.received)
    IN  [Return([c EXCEPT !.received = Drop(c.received, n)])
            EXCEPT !.bytes = Take(c.received, n)]

\* x - y for x >= y >= 0
Sub(x, y) ==
    IF x.lo >= y.lo THEN PyInt(x.hi - y.hi, x.lo - y.lo)
    ELSE PyInt(x.hi - y.hi - 1, x.lo + Limb - y.lo)

\* TCPSocketConnection.read: receive until length bytes are there; a receive
\* of no byte (the peer closed) is an IOError.  StreamReader.read(n) hands
\* out at most n bytes of the chunk that arrived first.
RECURSIVE TcpReadLoop(_, _, _)
TcpReadLoop(c, length, result) ==
    IF ~Less(FromNat(Len(result)), length)
    THEN [Return(c) EXCEPT !.bytes = result]
    ELSE IF c.chunks = <<>>
    THEN IF c.eof THEN Raise("IOError", c) ELSE Blocked(c)
    ELSE LET want == Sub(length, FromNat(Len(result)))
             head == Head(c.chunks)
             n    == IF Less(want, FromNat(Len(head))) THEN want.lo ELSE Len(head)
             new  == Take(head, n)
             rest == IF n = Len(head) THEN Tail(c.chunks)
                     ELSE <<Drop(head, n)>> \o Tail(c.chunks)
         IN  IF Len(new) = 0 THEN Raise("IOError", c)
             ELSE TcpReadLoop([c EXCEPT !.chunks = rest], length, result \o new)

\* A stream read that receives once and returns what came, short or empty.
TcpReadOnce(c, length) ==
    IF IsZero(length) THEN Return(c)
    ELSE IF c.chunks = <<>>
    THEN IF c.eof THEN Return(c) ELSE Blocked(c)
    ELSE LET head == Head(c.chunks)
             n    == IF Less(length, FromNat(Len(head))) THEN length.lo ELSE Len(head)
             rest == IF n = Len(head) THEN Tail(c.chunks)
                     ELSE <<Drop(head, n)>> \o Tail(c.chunks)
         IN  [Return([c EXCEPT !.chunks = rest]) EXCEPT !.bytes = Take(head, n)]

TcpRead(c, length) == TcpReadLoop(c, length, <<>>)

\* UDPSocketConnection.remaining
UdpRemaining == 65535

\* UDPSocketConnection.read: one whole datagram, whatever length is; an empty
\* datagram is skipped; recvfrom times out when nothing arrives.  The method
\* is a plain def: what it returns cannot be awaited.
RECURSIVE UdpReadLoop(_, _)
UdpReadLoop(c, result) ==
    IF Len(result) # 0
    THEN [Return(c) EXCEPT !.bytes = result, !.awaitable = FALSE]
    ELSE IF c.dgrams = <<>>
    THEN Raise("socket.timeout", c)
    ELSE UdpReadLoop([c EXCEPT !.dgrams = Tail(c.dgrams)],
                     result \o Take(Head(c.dgrams), UdpRemaining))

\* A datagram read that receives once and returns what came, empty or not.
UdpReadOnce(c, length) ==
    IF c.dgrams = <<>> THEN Raise("socket.timeout", c)
    ELSE [Return([c EXCEPT !.dgrams = Tail(c.dgrams)])
            EXCEPT !.bytes = Take(Head(c.dgrams), UdpRemaining), !.awaitable = FALSE]

UdpRead(c, length) == UdpReadLoop(c, <<>>)

\* self.read(length): the method of the connection's class.
read(c, length) ==
    CASE c.kind = "tcp" -> TcpRead(c, length)
      [] c.kind = "udp" -> UdpRead(c, length)
      [] OTHER -> BufferedRead(c, length)

\* await x: x has raised, or is awaited; a bytearray cannot be awaited.
Await(r) ==
    IF r.exc # "" THEN Raise(r.exc, r.conn)
    ELSE IF ~r.awaitable THEN Raise("TypeError", r.conn)
    ELSE r

\* Connection.write of a bytes-like value or a str.
write(c, data) ==
    IF data.tag = "str" THEN Raise("TypeError", c)
    ELSE IF c.sent.tag = "str" THEN Raise("AttributeError", c)
    ELSE Return([c EXCEPT !.sent = Bytes(c.sent.bytes \o data.bytes)])

\* Connection.receive
receive(c, data) ==
    IF data.tag = "str" THEN Raise("TypeError", c)
    ELSE Return([c EXCEPT !.received = c.received \o data.bytes])

\* Connection.remaining
remaining(c) == Len(c.received)

\* Connection.flush: hands out sent and leaves the str "" in its place.
flush(c) == [Return([c EXCEPT !.sent = Str(<<>>)]) EXCEPT !.data = c.sent]

\* TCPSocketConnection.flush, receive and remaining
TcpFlush(c) == Raise("TypeError", c)

TcpReceive(c, data) == Raise("TypeError", c)

TcpRemaining(c) == Raise("TypeError", c)

\* A datagram connection that does not override flush, and flushes.
UdpFlushInherited(c) == flush(c)

\* UDPSocketConnection.flush and receive
UdpFlush(c) == Raise("TypeError", c)

UdpReceive(c, data) == Raise("TypeError", c)

\* c.flush(), c.receive(data), c.remaining(): the method of c's class.
DoFlush(c) ==
    CASE c.kind = "tcp" -> TcpFlush(c)
      [] c.kind = "udp" -> UdpFlush(c)
      [] OTHER -> flush(c)

DoReceive(c, data) ==
    CASE c.kind = "tcp" -> TcpReceive(c, data)
      [] c.kind = "udp" -> UdpReceive(c, data)
      [] OTHER -> receive(c, data)

DoRemaining(c) ==
    CASE c.kind = "tcp" -> TcpRemaining(c)
      [] c.kind = "udp" -> [Return(c) EXCEPT !.int = FromNat(UdpRemaining)]
      [] OTHER -> [Return(c) EXCEPT !.int = FromNat(remaining(c))]

\* ------------------------------------------------------------------ varint

\* range(5) of read_varint
ReadVarintMax == 5

\* range(5) of write_varint
WriteVarintMax == 5

\* A decoder that places the i-th group 8 bits further instead of 7.
VarintPartShift8(part, i) == Shl(FromNat(BitAnd(part, 127)), 8 * i)

\* (part & 0x7F) << 7 * i
VarintPart(part, i) == Shl(FromNat(BitAnd(part, 127)), 7 * i)

\* Connection.read_varint.  ord() of anything but one byte is a TypeError.
RECURSIVE ReadVarintLoop(_, _, _)
ReadVarintLoop(c, i, result) ==
    IF i >= ReadVarintMax THEN Raise("IOError", c)
    ELSE LET r == Await(read(c, FromNat(1)))
         IN  IF r.exc # "" THEN r
             ELSE IF Len(r.bytes) # 1 THEN Raise("TypeError", r.conn)
             ELSE LET part == r.bytes[1]
                      next == Or(result, VarintPart(part, i))
                  IN  IF BitAnd(part, 128) = 0
                      THEN [Return(r.conn) EXCEPT !.int = next]
                      ELSE ReadVarintLoop(r.conn, i + 1, next)

read_varint(c) == ReadVarintLoop(c, 0, Zero)

\* struct.pack("!B", x) takes 0 <= x <= 255.
InByteRange(x) == x.hi = 0 /\ x.lo < 256

\* An encoder that takes a whole byte, not 7 bits, as fitting the last byte.
VarintFitsByte(rem) == IsZero(And(rem, Invert(FromNat(255))))

\* remaining & ~0x7F == 0
VarintFits(rem) == IsZero(And(rem, Invert(FromNat(127))))

\* Connection.write_varint
RECURSIVE WriteVarintLoop(_, _, _)
WriteVarintLoop(c, i, rem) ==
    IF i >= WriteVarintMax THEN Raise("ValueError", c)
    ELSE IF VarintFits(rem)
    THEN IF InByteRange(rem) THEN write(c, Bytes(<<rem.lo>>))
         ELSE Raise("struct.error", c)
    ELSE LET b == Or(And(rem, FromNat(127)), FromNat(128))
             w == IF InByteRange(b) THEN write(c, Bytes(<<b.lo>>))
                  ELSE Raise("struct.error", c)
         IN  IF w.exc # "" THEN w
             ELSE WriteVarintLoop(w.conn, i + 1, Shr(rem, 7))

write_varint(c, value) == WriteVarintLoop(c, 0, value)

\* ------------------------------------------------------------------- UTF-8

\* bytearray(value, 'utf8') of one character (a code point, no surrogate)
Utf8Char(cp) ==
    CASE cp < 128 -> <<cp>>
      [] cp >= 128 /\ cp < 2048 -> <<192 + (cp \div 64), 128 + (cp % 64)>>
      [] cp >= 2048 /\ cp < 65536 ->
            <<224 + (cp \div 4096), 128 + ((cp \div 64) % 64), 128 + (cp % 64)>>
      [] OTHER ->
            <<240 + (cp \div 262144), 128 + ((cp \div 4096) % 64),
              128 + ((cp \div 64) % 64), 128 + (cp % 64)>>

RECURSIVE Utf8Encode(_)
Utf8Encode(s) == IF s = <<>> THEN <<>> ELSE Utf8Char(Head(s)) \o Utf8Encode(Tail(s))

IsCont(b) == b >= 128 /\ b < 192

\* The length of the sequence a lead byte announces, 0 for no lead byte.
Utf8Width(b) ==
    CASE b < 128 -> 1
      [] b >= 194 /\ b < 224 -> 2
      [] b >= 224 /\ b < 240 -> 3
      [] b >= 240 /\ b < 245 -> 4
      [] OTHER -> 0

\* Whether b starts with one well-formed sequence (no overlong form, no
\* surrogate, nothing above U+10FFFF).
Utf8WellFormed(b) ==
    LET w == Utf8Width(b[1])
    IN  /\ w > 0
        /\ Len(b) >= w
        /\ \A k \in 2..w : IsCont(b[k])
        /\ (b[1] = 224 => b[2] >= 160)
        /\ (b[1] = 237 => b[2] < 160)
        /\ (b[1] = 240 => b[2] >= 144)
        /\ (b[1] = 244 => b[2] < 144)

Utf8CodePoint(b) ==
    CASE Utf8Width(b[1]) = 1 -> b[1]
      [] Utf8Width(b[1]) = 2 -> (b[1] - 192) * 64 + (b[2] - 128)
      [] Utf8Width(b[1]) = 3 ->
            (b[1] - 224) * 4096 + (b[2] - 128) * 64 + (b[3] - 128)
      [] OTHER ->
            (b[1] - 240) * 262144 + (b[2] - 128) * 4096 + (b[3] - 128) * 64
            + (b[4] - 128)

\* bytes.decode('utf8'): ok = FALSE is a UnicodeDecodeError.
RECURSIVE Utf8Decode(_)
Utf8Decode(b) ==
    IF b = <<>> THEN [ok |-> TRUE, str |-> <<>>]
    ELSE IF ~Utf8WellFormed(b) THEN [ok |-> FALSE, str |-> <<>>]
    ELSE LET rest == Utf8Decode(Drop(b, Utf8Width(b[1])))
         IN  [ok |-> rest.ok,
              str |-> IF rest.ok THEN <<Utf8CodePoint(b)>> \o rest.str ELSE <<>>]

\* Connection.read_utf
read_utf(c) ==
    LET l == read_varint(c)
    IN  IF l.exc # "" THEN Raise(l.exc, l.conn)
        ELSE LET r == Await(read(l.conn, l.int))
                 d == Utf8Decode(r.bytes)
             IN  IF r.exc # "" THEN r
                 ELSE IF ~d.ok THEN Raise("UnicodeDecodeError", r.conn)
                 ELSE [Return(r.conn) EXCEPT !.str = d.str]

\* Connection.write_utf: the prefix is len(value), the number of characters.
write_utf(c, value) ==
    LET w == write_varint(c, FromNat(Len(value)))
    IN  IF w.exc # "" THEN w
        ELSE write(w.conn, Bytes(Utf8Encode(value)))

\* -------------------------------------------------------------- sub-packets

\* Connection.read_buffer
read_buffer(c) ==
    LET l == read_varint(c)
    IN  IF l.exc # "" THEN Raise(l.exc, l.conn)
        ELSE LET r == Await(read(l.conn, l.int))
                 v == receive(Connection, Bytes(r.bytes))
             IN  IF r.exc # "" THEN r
                 ELSE [Return(r.conn) EXCEPT !.sub = v.conn]

\* Connection.write of a Connection: data is flushed, and what flush returned
\* goes through bytearray(), a TypeError for the str "", and is appended.
write_connection(c, data) ==
    LET f == flush(data)
    IN  [write(c, f.data) EXCEPT !.arg = f.conn]

\* A write_buffer that leaves out the length prefix.
write_buffer_noprefix(c, buffer) ==
    LET f == flush(buffer)
    IN  [write(c, f.data) EXCEPT !.arg = f.conn]

\* Connection.write_buffer: buffer is flushed whatever happens next.
write_buffer(c, buffer) ==
    LET f == flush(buffer)
        w == write_varint(c, FromNat(Len(f.data.bytes)))
        d == IF w.exc # "" THEN w ELSE write(w.conn, f.data)
    IN  [d EXCEPT !.arg = f.conn]

\* ------------------------------------------------- null-terminated strings

\* bytes.decode("ISO-8859-1"): byte k is the character U+00k.
Latin1Decode(b) == [k \in 1..Len(b) |-> b[k]]

\* One pass of the while statement of Connection.read_ascii, result being
\* what was read so far: the loop is left (the last byte read is 0, or read
\* raises), or goes on with one more byte, which exc = "<while>" says.  A
\* pass in which read(1) hands out nothing leaves result and the connection
\* as they were, and the while condition true: the loop does not end.
ReadAsciiPass(c, result) ==
    IF Len(result) # 0 /\ result[Len(result)] = 0
    THEN [Return(c) EXCEPT !.str = Latin1Decode(SubSeq(result, 1, Len(result) - 1))]
    ELSE LET r == Await(read(c, FromNat(1)))
         IN  IF r.exc # "" THEN r
             ELSE IF r.bytes = <<>> /\ r.conn = c THEN Loops(c)
             ELSE [Outcome("<while>", r.conn) EXCEPT !.bytes = result \o r.bytes]

\* bytearray(value, 'ISO-8859-1'): the character U+00k is the byte k;
\* ok = FALSE is a UnicodeEncodeError, for a character above U+00FF.
Latin1Encode(s) ==
    [ok |-> \A k \in 1..Len(s) : s[k] < 256,
     bytes |-> [k \in 1..Len(s) |-> s[k] % 256]]

\* A write_ascii that leaves out the terminator.
write_ascii_noterminator(c, value) ==
    LET e == Latin1Encode(value)
    IN  IF ~e.ok THEN Raise("UnicodeEncodeError", c) ELSE write(c, Bytes(e.bytes))

\* Connection.write_ascii
write_ascii(c, value) ==
    LET e == Latin1Encode(value)
        w == IF ~e.ok THEN Raise("UnicodeEncodeError", c) ELSE write(c, Bytes(e.bytes))
    IN  IF w.exc # "" THEN w ELSE write(w.conn, Bytes(<<0>>))

\* ------------------------------------------------------ fixed-width values

Formats == {"h", "H", "i", "I", "q", "Q"}

\* struct.calcsize(">" + format)
CalcSize(format) ==
    CASE format \in {"h", "H"} -> 2
      [] format \in {"i", "I"} -> 4
      [] OTHER -> 8

Signed(format) == format \in {"h", "i", "q"}

\* The big-endian integer of the bytes b[from..from+n-1], n <= 4, taken as
\* two's complement when signed.
BigEndian(b, from, n, signed) ==
    LET at(k) == IF k < 1 THEN 0 ELSE b[from + k - 1]
        h == at(n - 3) * 256 + at(n - 2)
        l == at(n - 1) * 256 + at(n)
        neg == signed /\ b[from] >= 128
    IN  IF n = 2 THEN PyInt(IF neg THEN -1 ELSE 0, l)
        ELSE PyInt(IF neg THEN h - Limb ELSE h, l)

\* Connection._unpack on the outcome of the read: struct.unpack raises
\* struct.error unless it is given exactly the bytes of the format.
unpack(format, r) ==
    LET n == CalcSize(format)
    IN  IF r.exc # "" THEN r
        ELSE IF Len(r.bytes) # n THEN Raise("struct.error", r.conn)
        ELSE IF n = 8
        THEN [Return(r.conn) EXCEPT !.top = BigEndian(r.bytes, 1, 4, Signed(format)),
                                    !.int = BigEndian(r.bytes, 5, 4, FALSE)]
        ELSE [Return(r.conn) EXCEPT !.int = BigEndian(r.bytes, 1, n, Signed(format))]

\* Connection.read_short, read_ushort, read_int, read_uint, read_long and
\* read_ulong: self._unpack(format, await self.read(size))
ReadFixed(c, format) == unpack(format, Await(read(c, FromNat(CalcSize(format)))))

read_short(c) == ReadFixed(c, "h")

read_ushort(c) == ReadFixed(c, "H")

read_int(c) == ReadFixed(c, "i")

read_uint(c) == ReadFixed(c, "I")

read_long(c) == ReadFixed(c, "q")

read_ulong(c) == ReadFixed(c, "Q")

\* ------------------------------------------------------------- the inputs

\* x + y for x, y >= 0
Add(x, y) ==
    PyInt(x.hi + y.hi + ((x.lo + y.lo) \div Limb), (x.lo + y.lo) % Limb)

Pow2(k) == Shl(FromNat(1), k)

\* The values write_varint is called with: the small ones, the neighbours of
\* every power of two up to 2^MaxExp, and negative ones.
VarintInputs ==
    {FromNat(n) : n \in 0..MaxSmall}
    \cup {Pow2(k) : k \in 0..MaxExp}
    \cup {Sub(Pow2(k), FromNat(1)) : k \in 0..MaxExp}
    \cup {Add(Pow2(k), FromNat(1)) : k \in 0..MaxExp}
    \cup {Invert(Zero), Invert(FromNat(127)), Invert(Sub(Pow2(31), FromNat(1)))}

SeqsUpTo(S, n) == UNION {[1..k -> S] : k \in 0..n}

\* 'A', e-acute, the euro sign, an emoji: 1, 2, 3 and 4 bytes of UTF-8.
Chars == {65, 233, 8364, 128512}

StrInputs == SeqsUpTo(Chars, MaxStrLen)

\* NUL, 'A', e-acute, and the euro sign, which ISO-8859-1 does not have.
AsciiChars == {0, 65, 233, 8364}

AsciiInputs == SeqsUpTo(AsciiChars, MaxStrLen)

\* What is written after the string: nothing, a zero byte, 'B' and a zero.
Trailers == {<<>>, <<0>>, <<66, 0>>}

\* A body of n bytes, for the bodies too long to enumerate.
Pattern(n) == [i \in 1..n |-> (7 * i) % 256]

BufInputs ==
    SeqsUpTo({0, 127, 128, 255}, MaxBufLen) \cup {Pattern(127), Pattern(128), Pattern(300)}

RawInputs == SeqsUpTo({1, 128, 255}, MaxRawLen)

\* The datagrams that arrive: empty ones, and payloads of one and two bytes.
DgramInputs == SeqsUpTo({<<>>, <<1>>, <<128, 1>>}, MaxDgrams)

\* The chunks of data cut after the positions in cuts.
RECURSIVE Split(_, _, _)
Split(data, cuts, from) ==
    IF from > Len(data) THEN <<>>
    ELSE LET later == {k \in cuts : k >= from /\ k < Len(data)}
             to    == IF later = {} THEN Len(data)
                      ELSE CHOOSE k \in later : \A j \in later : k <= j
         IN  <<SubSeq(data, from, to)>> \o Split(data, cuts, to + 1)

Kinds == {"buffered", "tcp", "udp"}

\* A connection of the given kind that data arrives on: handed to receive(),
\* sent by the peer of a stream in the given chunks, or sent as one datagram.
Arrival(kind, data, cuts, eof) ==
    CASE kind = "tcp" ->
            [Connection EXCEPT !.kind = "tcp", !.chunks = Split(data, cuts, 1),
                               !.eof = eof]
      [] kind = "udp" -> [Connection EXCEPT !.kind = "udp", !.dgrams = <<data>>]
      [] OTHER -> receive(Connection, Bytes(data)).conn

\* ---------------------------------------------------------------- the state

VARIABLES
    pc,      \* "idle", "written", "ready", "ascii", "read", "subread"
    call,    \* the writing call: [op, int, str, bytes]
    wres,    \* its outcome
    wire,    \* the bytes that reached the reading connection
    peer,    \* the reading connection, before the reading call
    rcall,   \* the reading call: [op, n]
    rres,    \* its outcome; inside read_ascii, bytes is the local result
    sres,    \* the outcome of read(n) on the connection read_buffer returned
    step,       \* where ping, status or query stands: "idle", "enter",
                \* "range", "loop", "exit", "done"
    request,    \* the call: [op, tries, script, resolved]
    attempt,    \* the attempts started
    exception,  \* the local variable exception
    transports, \* the connections constructed, in order: [kind, state, resolved]
    used,       \* used[k]: the transport that attempt k ran against
    pending,    \* the return or raise on its way out of the async with
    result,     \* what the call returned or raised
    dst,     \* a buffered connection that calls are made on, one after another
    src,     \* a second buffered connection, the one written into dst
    last,    \* the last call: [op, exc, data, dst, src, since], the last
             \* three as they were before the call
    fed,     \* all the data passed to dst.receive, in call order
    got,     \* all the bytes that dst.read returned, in call order
    since,   \* the bytes handed to the writes on dst since its last flush
    ops      \* the number of calls made

codecVars == <<pc, call, wres, wire, peer, rcall, rres, sres>>

retryVars ==
    <<step, request, attempt, exception, transports, used, pending, result>>

bufVars == <<dst, src, last, fed, got, since, ops>>

vars == <<codecVars, retryVars, bufVars>>

NoCall == [op |-> "", int |-> Zero, str |-> <<>>, bytes |-> <<>>]

NoRead == [op |-> "", n |-> 0]

\* An exception: its class and the attempt that raised it (0: no attempt),
\* which stands for its message.
Error(type, k) == [type |-> type, attempt |-> k]

None == Error("None", 0)

NoResult == [kind |-> "", value |-> 0, error |-> None]

\* The result of attempt k
Returned(k) == [kind |-> "return", value |-> k, error |-> None]

Raised(e) == [kind |-> "raise", value |-> 0, error |-> e]

NoRequest == [op |-> "", tries |-> 0, script |-> <<>>, resolved |-> FALSE]

NoLast ==
    [op |-> "", exc |-> "", data |-> Bytes(<<>>), dst |-> Connection,
     src |-> Connection, since |-> <<>>]

Init ==
    /\ step = "idle"
    /\ request = NoRequest
    /\ attempt = 0
    /\ exception = None
    /\ transports = <<>>
    /\ used = <<>>
    /\ pending = NoResult
    /\ result = NoResult
    /\ pc = "idle"
    /\ call = NoCall
    /\ wres = Return(NoConn)
    /\ wire = <<>>
    /\ peer = NoConn
    /\ rcall = NoRead
    /\ rres = Return(NoConn)
    /\ sres = Return(NoConn)
    /\ dst = Connection
    /\ src = Connection
    /\ last = NoLast
    /\ fed = <<>>
    /\ got = <<>>
    /\ since = <<>>
    /\ ops = 0

\* write_varint(v) on a new buffered connection
CallWriteVarint ==
    /\ pc = "idle"
    /\ \E v \in VarintInputs :
          /\ call' = [NoCall EXCEPT !.op = "write_varint", !.int = v]
          /\ wres' = write_varint(Connection, v)
    /\ pc' = "written"
    /\ UNCHANGED <<wire, peer, rcall, rres, sres>>
    /\ UNCHANGED <<retryVars, bufVars>>

\* write_utf(s) on a new buffered connection
CallWriteUtf ==
    /\ pc = "idle"
    /\ \E s \in StrInputs :
          /\ call' = [NoCall EXCEPT !.op = "write_utf", !.str = s]
          /\ wres' = write_utf(Connection, s)
    /\ pc' = "written"
    /\ UNCHANGED <<wire, peer, rcall, rres, sres>>
    /\ UNCHANGED <<retryVars, bufVars>>

\* write_buffer(buffer) on a new buffered connection, buffer being a buffered
\* connection that b was written to
CallWriteBuffer ==
    /\ pc = "idle"
    /\ \E b \in BufInputs :
          /\ call' = [NoCall EXCEPT !.op = "write_buffer", !.bytes = b]
          /\ wres' = write_buffer(Connection, write(Connection, Bytes(b)).conn)
    /\ pc' = "written"
    /\ UNCHANGED <<wire, peer, rcall, rres, sres>>
    /\ UNCHANGED <<retryVars, bufVars>>

\* write_ascii(s) and then write(t) on a new buffered connection
CallWriteAscii ==
    /\ pc = "idle"
    /\ \E s \in AsciiInputs, t \in Trailers :
          /\ call' = [NoCall EXCEPT !.op = "write_ascii", !.str = s, !.bytes = t]
          /\ wres' = LET w == write_ascii(Connection, s)
                     IN  IF w.exc # "" THEN w ELSE write(w.conn, Bytes(t))
    /\ pc' = "written"
    /\ UNCHANGED <<wire, peer, rcall, rres, sres>>
    /\ UNCHANGED <<retryVars, bufVars>>

\* The written connection is flushed and the bytes travel to the reader.
Deliver ==
    /\ pc = "written"
    /\ \E kind \in Kinds, cuts \in SUBSET (1..MaxCut), eof \in BOOLEAN :
          LET data == flush(wres.conn).data.bytes
          IN  /\ kind # "tcp" => (cuts = {} /\ eof = FALSE)
              /\ wire' = data
              /\ peer' = Arrival(kind, data, cuts, eof)
    /\ pc' = "ready"
    /\ UNCHANGED <<call, wres, rcall, rres, sres>>
    /\ UNCHANGED <<retryVars, bufVars>>

\* Bytes that no write of this module made reach the reader.
ReceiveRaw ==
    /\ pc = "idle"
    /\ \E kind \in Kinds, cuts \in SUBSET (1..MaxCut), eof \in BOOLEAN,
          raw \in RawInputs :
          /\ kind # "tcp" => (cuts = {} /\ eof = FALSE)
          /\ call' = [NoCall EXCEPT !.op = "receive", !.bytes = raw]
          /\ wire' = raw
          /\ peer' = Arrival(kind, raw, cuts, eof)
    /\ pc' = "ready"
    /\ UNCHANGED <<wres, rcall, rres, sres>>
    /\ UNCHANGED <<retryVars, bufVars>>

\* Datagrams reach a datagram connection, one after the other.
ReceiveDatagrams ==
    /\ pc = "idle"
    /\ \E ds \in DgramInputs :
          /\ call' = [NoCall EXCEPT !.op = "datagrams"]
          /\ wire' = Flatten(ds)
          /\ peer' = [Connection EXCEPT !.kind = "udp", !.dgrams = ds]
    /\ pc' = "ready"
    /\ UNCHANGED <<wres, rcall, rres, sres>>
    /\ UNCHANGED <<retryVars, bufVars>>

CallRead ==
    /\ pc = "ready"
    /\ \E n \in 0..MaxRead :
          /\ rcall' = [op |-> "read", n |-> n]
          /\ rres' = read(peer, FromNat(n))
    /\ pc' = "read"
    /\ UNCHANGED <<call, wres, wire, peer, sres>>
    /\ UNCHANGED <<retryVars, bufVars>>

CallReadVarint ==
    /\ pc = "ready"
    /\ rcall' = [op |-> "read_varint", n |-> 0]
    /\ rres' = read_varint(peer)
    /\ pc' = "read"
    /\ UNCHANGED <<call, wres, wire, peer, sres>>
    /\ UNCHANGED <<retryVars, bufVars>>

CallReadUtf ==
    /\ pc = "ready"
    /\ rcall' = [op |-> "read_utf", n |-> 0]
    /\ rres' = read_utf(peer)
    /\ pc' = "read"
    /\ UNCHANGED <<call, wres, wire, peer, sres>>
    /\ UNCHANGED <<retryVars, bufVars>>

CallReadBuffer ==
    /\ pc = "ready"
    /\ rcall' = [op |-> "read_buffer", n |-> 0]
    /\ rres' = read_buffer(peer)
    /\ pc' = "read"
    /\ UNCHANGED <<call, wres, wire, peer, sres>>
    /\ UNCHANGED <<retryVars, bufVars>>

\* read_ascii() is called: result = bytearray()
CallReadAscii ==
    /\ pc = "ready"
    /\ rcall' = [op |-> "read_ascii", n |-> 0]
    /\ rres' = Outcome("<while>", peer)
    /\ pc' = "ascii"
    /\ UNCHANGED <<call, wres, wire, peer, sres>>
    /\ UNCHANGED <<retryVars, bufVars>>

\* One pass of its while statement
ReadAsciiLoop ==
    /\ pc = "ascii"
    /\ LET r == ReadAsciiPass(rres.conn, rres.bytes)
       IN  /\ rres' = r
           /\ pc' = IF r.exc = "<while>" THEN "ascii" ELSE "read"
    /\ UNCHANGED <<call, wres, wire, peer, rcall, sres>>
    /\ UNCHANGED <<retryVars, bufVars>>

\* One of the fixed-width reads; n is the size of its format.
CallReadFixed ==
    /\ pc = "ready"
    /\ \E f \in Formats :
          /\ rcall' = [op |-> "read_" \o f, n |-> CalcSize(f)]
          /\ rres' = CASE f = "h" -> read_short(peer)
                       [] f = "H" -> read_ushort(peer)
                       [] f = "i" -> read_int(peer)
                       [] f = "I" -> read_uint(peer)
                       [] f = "q" -> read_long(peer)
                       [] OTHER -> read_ulong(peer)
    /\ pc' = "read"
    /\ UNCHANGED <<call, wres, wire, peer, sres>>
    /\ UNCHANGED <<retryVars, bufVars>>

\* flush(), receive(data) with n bytes of data, or remaining(), on the
\* reading connection, whatever its class.
CallFlush ==
    /\ pc = "ready"
    /\ rcall' = [op |-> "flush", n |-> 0]
    /\ rres' = DoFlush(peer)
    /\ pc' = "read"
    /\ UNCHANGED <<call, wres, wire, peer, sres>>
    /\ UNCHANGED <<retryVars, bufVars>>

CallReceive ==
    /\ pc = "ready"
    /\ \E n \in 0..MaxRead :
          /\ rcall' = [op |-> "receive", n |-> n]
          /\ rres' = DoReceive(peer, Bytes(Pattern(n)))
    /\ pc' = "read"
    /\ UNCHANGED <<call, wres, wire, peer, sres>>
    /\ UNCHANGED <<retryVars, bufVars>>

CallRemaining ==
    /\ pc = "ready"
    /\ rcall' = [op |-> "remaining", n |-> 0]
    /\ rres' = DoRemaining(peer)
    /\ pc' = "read"
    /\ UNCHANGED <<call, wres, wire, peer, sres>>
    /\ UNCHANGED <<retryVars, bufVars>>

\* read(remaining()) on the connection that read_buffer returned
ReadSub ==
    /\ pc = "read"
    /\ rcall.op = "read_buffer"
    /\ rres.exc = ""
    /\ sres' = read(rres.sub, FromNat(remaining(rres.sub)))
    /\ pc' = "subread"
    /\ UNCHANGED <<call, wres, wire, peer, rcall, rres>>
    /\ UNCHANGED <<retryVars, bufVars>>

Next ==
    \/ CallWriteVarint
    \/ CallWriteUtf
    \/ CallWriteBuffer
    \/ CallWriteAscii
    \/ Deliver
    \/ ReceiveRaw
    \/ ReceiveDatagrams
    \/ CallRead
    \/ CallReadVarint
    \/ CallReadUtf
    \/ CallReadBuffer
    \/ CallReadAscii
    \/ ReadAsciiLoop
    \/ CallReadFixed
    \/ CallFlush
    \/ CallReceive
    \/ CallRemaining
    \/ ReadSub

Spec == Init /\ [][Next]_vars

\* ------------------------------------------------------- MinecraftServer

\* tries=3
DefaultTries == 3

\* The calls are made with 0 <= tries <= MaxTries.
MaxTries == 3

\* What the handshake and request of one attempt do: succeed, or raise.
Outcomes == {"ok", "IOError", "socket.timeout"}

Ops == {"ping", "status", "query"}

\* ping(tries), status(tries) or query(tries) is called, against a server
\* that answers attempt k as script[k] says.  ping and status construct their
\* TCPSocketConnection; query looks the address up, which changes the host
\* or leaves it.
Call ==
    /\ step = "idle"
    /\ \E op \in Ops, n \in (0..MaxTries) \cup {DefaultTries}, resolved \in BOOLEAN :
          \E script \in [1..n -> Outcomes] :
             /\ resolved => op = "query"
             /\ request' = [op |-> op, tries |-> n, script |-> script,
                            resolved |-> resolved]
             /\ transports' = IF op = "query" THEN <<>>
                              ELSE <<[kind |-> "tcp", state |-> "new",
                                      resolved |-> FALSE]>>
             /\ step' = IF op = "query" THEN "range" ELSE "enter"
    /\ exception' = None
    /\ UNCHANGED <<attempt, used, pending, result>>
    /\ UNCHANGED <<codecVars, bufVars>>

\* TCPSocketConnection.__aenter__: the connection is opened, or the attempt
\* to open it raises, and the call ends there.
Enter ==
    /\ step = "enter"
    /\ \E ok \in BOOLEAN :
          IF ok
          THEN /\ transports' = [transports EXCEPT ![1].state = "open"]
               /\ step' = "range"
               /\ UNCHANGED result
          ELSE /\ result' = Raised(Error("TimeoutError", 0))
               /\ step' = "done"
               /\ UNCHANGED transports
    /\ UNCHANGED <<request, attempt, exception, used, pending>>
    /\ UNCHANGED <<codecVars, bufVars>>

\* The head of the for statement: ping and status say range(retries), a name
\* that nothing defines; query says range(tries).
EvalRange ==
    /\ step = "range"
    /\ IF request.op = "query"
       THEN /\ step' = "loop"
            /\ UNCHANGED pending
       ELSE /\ pending' = Raised(Error("NameError", 0))
            /\ step' = "exit"
    /\ UNCHANGED <<request, attempt, exception, transports, used, result>>
    /\ UNCHANGED <<codecVars, bufVars>>

\* One pass through the loop body: query constructs a UDPSocketConnection
\* (a socket is opened); the handshake and the request run; their result is
\* returned, or their exception kept.
Attempt ==
    /\ step = "loop"
    /\ attempt < request.tries
    /\ LET k  == attempt + 1
           ts == IF request.op = "query"
                 THEN Append(transports, [kind |-> "udp", state |-> "open",
                                          resolved |-> request.resolved])
                 ELSE transports
       IN  /\ attempt' = k
           /\ transports' = ts
           /\ used' = Append(used, Len(ts))
           /\ IF request.script[k] = "ok"
              THEN /\ UNCHANGED exception
                   /\ IF request.op = "query"
                      THEN /\ result' = Returned(k)
                           /\ step' = "done"
                           /\ UNCHANGED pending
                      ELSE /\ pending' = Returned(k)
                           /\ step' = "exit"
                           /\ UNCHANGED result
              ELSE /\ exception' = Error(request.script[k], k)
                   /\ UNCHANGED <<step, pending, result>>
    /\ UNCHANGED request
    /\ UNCHANGED <<codecVars, bufVars>>

\* The else of the for statement: raise exception; raise None is a TypeError.
Exhausted ==
    /\ step = "loop"
    /\ attempt >= request.tries
    /\ LET e == IF exception = None THEN Error("TypeError", 0) ELSE exception
       IN  IF request.op = "query"
           THEN /\ result' = Raised(e)
                /\ step' = "done"
                /\ UNCHANGED pending
           ELSE /\ pending' = Raised(e)
                /\ step' = "exit"
                /\ UNCHANGED result
    /\ UNCHANGED <<request, attempt, exception, transports, used>>
    /\ UNCHANGED <<codecVars, bufVars>>

\* TCPSocketConnection.__aexit__: the writer, if there is one, is closed, and
\* the return or the exception goes on to the caller.
Exit ==
    /\ step = "exit"
    /\ transports' = IF transports[1].state = "open"
                     THEN [transports EXCEPT ![1].state = "closed"]
                     ELSE transports
    /\ result' = pending
    /\ step' = "done"
    /\ UNCHANGED <<request, attempt, exception, used, pending>>
    /\ UNCHANGED <<codecVars, bufVars>>

NextRetry ==
    \/ Call
    \/ Enter
    \/ EvalRange
    \/ Attempt
    \/ Exhausted
    \/ Exit

SpecRetry == Init /\ [][NextRetry]_vars

\* ------------------------------------------- calls on one buffered connection

\* At most MaxOps calls are made, one after another.
MaxOps == 4

\* What write and receive are called with.
WriteInputs == {<<>>, <<1>>, <<2, 3>>}

ReceiveInputs == {<<>>, <<4>>, <<5, 6>>}

\* 300 takes two bytes; 2^35 and -1 are refused.
BufVarintInputs == {FromNat(300), Pow2(35), Invert(Zero)}

\* The record of a call with outcome r, made in the current state.
Last(op, r) ==
    [op |-> op, exc |-> r.exc, data |-> r.data, dst |-> dst, src |-> src,
     since |-> since]

\* dst.write(a)
BufWrite ==
    /\ ops < MaxOps
    /\ \E a \in WriteInputs :
          LET r == write(dst, Bytes(a))
          IN  /\ dst' = r.conn
              /\ last' = Last("write", r)
              /\ since' = since \o a
    /\ ops' = ops + 1
    /\ UNCHANGED <<src, fed, got>>
    /\ UNCHANGED <<codecVars, retryVars>>

\* dst.flush()
BufFlush ==
    /\ ops < MaxOps
    /\ LET r == flush(dst)
       IN  /\ dst' = r.conn
           /\ last' = Last("flush", r)
    /\ since' = <<>>
    /\ ops' = ops + 1
    /\ UNCHANGED <<src, fed, got>>
    /\ UNCHANGED <<codecVars, retryVars>>

\* dst.receive(d)
BufReceive ==
    /\ ops < MaxOps
    /\ \E d \in ReceiveInputs :
          LET r == receive(dst, Bytes(d))
          IN  /\ dst' = r.conn
              /\ last' = Last("receive", r)
              /\ fed' = IF r.exc = "" THEN fed \o d ELSE fed
    /\ ops' = ops + 1
    /\ UNCHANGED <<src, got, since>>
    /\ UNCHANGED <<codecVars, retryVars>>

\* dst.read(n)
BufRead ==
    /\ ops < MaxOps
    /\ \E n \in 0..MaxRead :
          LET r == read(dst, FromNat(n))
          IN  /\ dst' = r.conn
              /\ last' = Last("read", r)
              /\ got' = got \o r.bytes
    /\ ops' = ops + 1
    /\ UNCHANGED <<src, fed, since>>
    /\ UNCHANGED <<codecVars, retryVars>>

\* dst.write_varint(v); since grows by what the call appended to sent.
BufWriteVarint ==
    /\ ops < MaxOps
    /\ \E v \in BufVarintInputs :
          LET r == write_varint(dst, v)
          IN  /\ dst' = r.conn
              /\ last' = Last("write_varint", r)
              /\ since' = since \o Drop(r.conn.sent.bytes, Len(dst.sent.bytes))
    /\ ops' = ops + 1
    /\ UNCHANGED <<src, fed, got>>
    /\ UNCHANGED <<codecVars, retryVars>>

\* dst.write(src)
BufWriteConnection ==
    /\ ops < MaxOps
    /\ LET r == write_connection(dst, src)
       IN  /\ dst' = r.conn
           /\ src' = r.arg
           /\ last' = Last("write_connection", r)
    /\ since' = since \o src.sent.bytes
    /\ ops' = ops + 1
    /\ UNCHANGED <<fed, got>>
    /\ UNCHANGED <<codecVars, retryVars>>

\* src.write(a)
SrcWrite ==
    /\ ops < MaxOps
    /\ \E a \in WriteInputs :
          LET r == write(src, Bytes(a))
          IN  /\ src' = r.conn
              /\ last' = Last("src.write", r)
    /\ ops' = ops + 1
    /\ UNCHANGED <<dst, fed, got, since>>
    /\ UNCHANGED <<codecVars, retryVars>>

\* src.flush()
SrcFlush ==
    /\ ops < MaxOps
    /\ LET r == flush(src)
       IN  /\ src' = r.conn
           /\ last' = Last("src.flush", r)
    /\ ops' = ops + 1
    /\ UNCHANGED <<dst, fed, got, since>>
    /\ UNCHANGED <<codecVars, retryVars>>

\* src.receive(d)
SrcReceive ==
    /\ ops < MaxOps
    /\ \E d \in ReceiveInputs :
          LET r == receive(src, Bytes(d))
          IN  /\ src' = r.conn
              /\ last' = Last("src.receive", r)
    /\ ops' = ops + 1
    /\ UNCHANGED <<dst, fed, got, since>>
    /\ UNCHANGED <<codecVars, retryVars>>

NextBuffer ==
    \/ BufWrite
    \/ BufFlush
    \/ BufReceive
    \/ BufRead
    \/ BufWriteVarint
    \/ BufWriteConnection
    \/ SrcWrite
    \/ SrcFlush
    \/ SrcReceive

SpecBuffer == Init /\ [][NextBuffer]_vars

\* ------------------------------------------------------------- properties

OnBuffered == peer.kind = "buffered"

\* The bytes of the wire that the reading call took from its connection.
RECURSIVE TotalLen(_)
TotalLen(ss) == IF ss = <<>> THEN 0 ELSE Len(Head(ss)) + TotalLen(Tail(ss))

Pending(c) == Len(c.received) + TotalLen(c.chunks) + TotalLen(c.dgrams)

Consumed == Pending(peer) - Pending(rres.conn)

\* C3: on a buffered connection every read(n) that succeeds returns exactly n
\* bytes; with fewer than n bytes queued it fails instead.
C3_ReadExactOrFail ==
    (rcall.op = "read" /\ OnBuffered)
        => /\ rres.exc = "" => Len(rres.bytes) = rcall.n
           /\ rcall.n > Len(peer.received) => rres.exc # ""

\* C4: for 0 <= v < 2^32, write_varint(v) on an empty buffered connection,
\* the flushed bytes moved into a received queue, then read_varint: the
\* result is v, at most 5 bytes were used, and the queue is left empty.
C4_VarintRoundTrip ==
    (call.op = "write_varint" /\ rcall.op = "read_varint" /\ OnBuffered
     /\ ~Less(call.int, Zero) /\ Less(call.int, Pow2(32)))
        => /\ wres.exc = ""
           /\ rres.exc = ""
           /\ rres.int = call.int
           /\ Len(wire) <= 5
           /\ rres.conn.received = <<>>

\* C4's case: 2^32 - 1 went through five bytes and came back.
C4_Witness ==
    /\ call.op = "write_varint" /\ rcall.op = "read_varint" /\ OnBuffered
    /\ call.int = Sub(Pow2(32), FromNat(1))
    /\ Len(wire) = 5
    /\ rres.int = call.int

\* The first five bytes all carry the continuation bit 0x80.
FiveContinuations(b) == Len(b) >= 5 /\ \A k \in 1..5 : BitAnd(b[k], 128) # 0

\* v needs a sixth byte: v >= 2^35.
NeedsSixthByte(v) == ~Less(v, Pow2(35))

C6_UtfRoundTrip ==
    (call.op = "write_utf" /\ rcall.op = "read_utf" /\ OnBuffered)
        => /\ wres.exc = ""
           /\ wire = write_varint(Connection,
                                  FromNat(Len(Utf8Encode(call.str)))).conn.sent.bytes
                      \o Utf8Encode(call.str)
           /\ rres.exc = ""
           /\ rres.str = call.str
           /\ rres.conn.received = <<>>

\* The number of bytes of the varint of a length n < 2^21.
PrefixLen(n) == IF n < 128 THEN 1 ELSE IF n < 16384 THEN 2 ELSE 3

\* C7: write_buffer of a buffered connection holding B, then read_buffer on
\* the emitted bytes: the connection returned holds B, its remaining() is
\* len(B), the outer stream lost the prefix and len(B) bytes, and after
\* reading len(B) bytes from it its remaining() is 0.
C7_BufferRoundTrip ==
    (call.op = "write_buffer" /\ rcall.op = "read_buffer" /\ OnBuffered)
        => /\ wres.exc = ""
           /\ rres.exc = ""
           /\ rres.sub.kind = "buffered"
           /\ rres.sub.received = call.bytes
           /\ remaining(rres.sub) = Len(call.bytes)
           /\ Consumed = PrefixLen(Len(call.bytes)) + Len(call.bytes)
           /\ rres.conn.received = <<>>
           /\ pc = "subread" => /\ sres.exc = ""
                                /\ sres.bytes = call.bytes
                                /\ remaining(sres.conn) = 0

\* C7's case: a body of 300 bytes, with a two-byte prefix, came back and was
\* read to its end.
C7_Witness ==
    /\ call.op = "write_buffer" /\ rcall.op = "read_buffer" /\ OnBuffered
    /\ call.bytes = Pattern(300)
    /\ pc = "subread"
    /\ sres.bytes = call.bytes
    /\ Len(wire) = 302

\* What the reading call returns on a buffered connection holding the wire.
Reference ==
    LET c == receive(Connection, Bytes(wire)).conn
    IN  CASE rcall.op = "read_varint" -> read_varint(c)
          [] rcall.op = "read_utf" -> read_utf(c)
          [] OTHER -> read_buffer(c)

\* C10: whatever read_varint, read_utf or read_buffer decodes from a buffered
\* connection, it decodes from a stream delivering the same bytes in any
\* chunking and from a datagram connection receiving them as one datagram:
\* the same value, the same number of bytes consumed.
C10_VariantIndependent ==
    (rcall.op \in {"read_varint", "read_utf", "read_buffer"}
     /\ peer.kind \in {"tcp", "udp"} /\ Reference.exc = "")
        => /\ rres.exc = ""
           /\ rres.int = Reference.int
           /\ rres.str = Reference.str
           /\ rres.sub = Reference.sub
           /\ Consumed = Len(wire) - Len(Reference.conn.received)

\* The read operations of the codec.
CodecReads ==
    {"read_varint", "read_utf", "read_ascii", "read_buffer"}
    \cup {"read_" \o f : f \in Formats}

\* C11: every codec read operation on a buffered connection terminates, by
\* returning or by failing, whatever the received queue holds.
C11_BufferedReadsTerminate ==
    (rcall.op \in CodecReads /\ OnBuffered)
        => rres.exc \notin {"<blocked>", "<loops>"}

\* C12: on a stream, whatever the chunking, read(n) with n bytes arriving
\* returns exactly the next n bytes in order and leaves the rest of the
\* stream; when the peer closes after fewer than n bytes, read(n) fails with
\* IOError; no read(n) returns other than n bytes.
C12_StreamReadExact ==
    (rcall.op = "read" /\ peer.kind = "tcp")
        => /\ rcall.n <= Len(wire)
                => /\ rres.exc = ""
                   /\ rres.bytes = Take(wire, rcall.n)
                   /\ Flatten(rres.conn.chunks) = Drop(wire, rcall.n)
           /\ (rcall.n > Len(wire) /\ peer.eof) => rres.exc = "IOError"
           /\ rres.exc = "" => Len(rres.bytes) = rcall.n

\* C12's case: the peer sent 2 bytes in two chunks and closed, and read(3)
\* failed with IOError.
C12_Witness ==
    /\ rcall.op = "read" /\ peer.kind = "tcp"
    /\ peer.eof /\ Len(peer.chunks) = 2 /\ Len(wire) = 2
    /\ rcall.n = 3
    /\ rres.exc = "IOError"

\* -2^31
MinInt32 == Invert(Sub(Pow2(31), FromNat(1)))

\* C13: for -2^31 <= v < 0, write_varint(v) succeeds and emits the five bytes
\* that write_varint(v + 2^32) emits.
C13_NegativeVarint ==
    (call.op = "write_varint" /\ Less(call.int, Zero) /\ ~Less(call.int, MinInt32))
        => /\ wres.exc = ""
           /\ wres.conn.sent.bytes
                 = write_varint(Connection, Add(call.int, Pow2(32))).conn.sent.bytes
           /\ Len(wres.conn.sent.bytes) = 5

\* The call on the reading connection failed with TypeError and changed
\* nothing.
Rejected == rres.exc = "TypeError" /\ rres.conn = peer

\* C14 as stated: on a stream and on a datagram connection flush(),
\* receive(data) and remaining() each fail with TypeError and change no state;
\* on a buffered connection they succeed.
C14_AllRejected ==
    rcall.op \in {"flush", "receive", "remaining"}
        => /\ peer.kind \in {"tcp", "udp"} => Rejected
           /\ OnBuffered => rres.exc = ""

\* C14 amended: flush() and receive(data) fail with TypeError and change no
\* state on a stream and on a datagram connection; remaining() does so on a
\* stream, and on a datagram connection it returns 65535 and changes no
\* state; on a buffered connection the three succeed.
C14_RejectedButUdpRemaining ==
    rcall.op \in {"flush", "receive", "remaining"}
        => /\ (peer.kind = "tcp" \/ (peer.kind = "udp" /\ rcall.op # "remaining"))
                => Rejected
           /\ (peer.kind = "udp" /\ rcall.op = "remaining")
                => /\ rres.exc = ""
                   /\ rres.int = FromNat(65535)
                   /\ rres.conn = peer
           /\ OnBuffered => rres.exc = ""

\* C14's case: remaining() on a datagram connection with a datagram waiting
\* has returned 65535.
C14_Witness ==
    /\ rcall.op = "remaining" /\ peer.kind = "udp" /\ peer.dgrams # <<>>
    /\ rres.exc = ""
    /\ rres.int = FromNat(65535)

\* s has ISO-8859-1 characters only, and no NUL.
Latin1NoNul(s) == \A k \in 1..Len(s) : s[k] > 0 /\ s[k] < 256

\* C15: for an ISO-8859-1 string s without NUL, write_ascii(s) emits the
\* bytes of s and one zero byte, and read_ascii over the emitted bytes (and
\* whatever follows them) returns s and consumes len(s) + 1 bytes, leaving
\* what follows the terminator.
C15_AsciiRoundTrip ==
    (call.op = "write_ascii" /\ Latin1NoNul(call.str))
        => /\ wres.exc = ""
           /\ wres.conn.sent.bytes = call.str \o <<0>> \o call.bytes
           /\ (rcall.op = "read_ascii" /\ pc = "read" /\ OnBuffered)
                => /\ rres.exc = ""
                   /\ rres.str = call.str
                   /\ Consumed = Len(call.str) + 1
                   /\ rres.conn.received = call.bytes

\* C15's case: "A" and e-acute, followed by 'B' and a zero byte, were read
\* back, and the two following bytes stayed in the queue.
C15_Witness ==
    /\ call.op = "write_ascii" /\ call.str = <<65, 233>> /\ call.bytes = <<66, 0>>
    /\ rcall.op = "read_ascii" /\ pc = "read" /\ OnBuffered
    /\ rres.str = call.str
    /\ rres.conn.received = <<66, 0>>

\* The positions of the non-empty datagrams among those that arrive.
NonEmpty == {k \in 1..Len(peer.dgrams) : peer.dgrams[k] # <<>>}

\* C16: on a datagram connection read(n), whatever n, skips the empty
\* datagrams and returns the whole payload of the first non-empty one, leaving
\* the datagrams after it; it never returns an empty result.
C16_DatagramRead ==
    (rcall.op = "read" /\ peer.kind = "udp")
        => /\ NonEmpty # {}
                => LET f == CHOOSE k \in NonEmpty : \A j \in NonEmpty : k <= j
                   IN  /\ rres.exc = ""
                       /\ rres.bytes = peer.dgrams[f]
                       /\ rres.conn.dgrams
                             = SubSeq(peer.dgrams, f + 1, Len(peer.dgrams))
           /\ rres.exc = "" => rres.bytes # <<>>

\* C16's case: an empty datagram, one of two bytes and one more arrived;
\* read(1) returned the two bytes and left the last datagram.
C16_Witness ==
    /\ rcall.op = "read" /\ peer.kind = "udp" /\ rcall.n = 1
    /\ peer.dgrams = <<<<>>, <<128, 1>>, <<1>>>>
    /\ rres.bytes = <<128, 1>>
    /\ rres.conn.dgrams = <<<<1>>>>

\* C17: dst.write(src), both buffered, succeeds, appends src's outgoing bytes
\* to dst's, leaves src's outgoing accumulator empty and leaves both
\* received queues as they were.
C17_Embedding ==
    last.op = "write_connection"
        => /\ last.exc = ""
           /\ dst.sent.bytes = last.dst.sent.bytes \o last.src.sent.bytes
           /\ src.sent.bytes = <<>>
           /\ dst.received = last.dst.received
           /\ src.received = last.src.received

\* C18: every write(A) on a buffered connection succeeds, also after a flush,
\* and every flush() succeeds, returns the bytes written since the previous
\* flush (or since creation) and leaves the outgoing accumulator empty.
C18_FlushResets ==
    /\ last.op = "write" => last.exc = ""
    /\ last.op = "flush"
            => /\ last.exc = ""
               /\ last.data.bytes = last.since
               /\ dst.sent.bytes = <<>>

\* C19: after any calls of receive(d) and read(n) on a buffered connection,
\* in any order, the bytes the reads returned, in call order, followed by the
\* received queue are the data passed to receive, in call order; and neither
\* call changes the outgoing accumulator.
C19_FifoConservation ==
    /\ got \o dst.received = fed
    /\ last.op \in {"receive", "read"} => dst.sent = last.dst.sent

\* C19's case: receive, read, receive, read, the last read taking bytes of
\* both receives and leaving one byte queued.
C19_Witness ==
    /\ ops = 4 /\ last.op = "read"
    /\ fed = <<5, 6, 5, 6>>
    /\ got = <<5, 6, 5>>
    /\ last.dst.received = <<6, 5, 6>>
    /\ dst.received = <<6>>

\* C20: a write_varint(v) on a buffered connection that fails with ValueError
\* leaves the outgoing accumulator as it was before the call.
C20_VarintAtomic ==
    (last.op = "write_varint" /\ last.exc = "ValueError")
        => dst.sent = last.dst.sent

\* The call is over, and was not ended by a connection that could not be
\* opened.
Finished == step = "done" /\ result # Raised(Error("TimeoutError", 0))

\* The first attempt that the server answers, 0 when it answers none.
FirstOk ==
    LET oks == {k \in 1..request.tries : request.script[k] = "ok"}
    IN  IF oks = {} THEN 0 ELSE CHOOSE k \in oks : \A j \in oks : k <= j

\* C1: when attempts 1..k-1 fail and attempt k <= tries succeeds, the call
\* returns the result of attempt k, and attempt k is the last one made.
C1_ReturnsFirstSuccess ==
    (Finished /\ FirstOk > 0)
        => /\ result = Returned(FirstOk)
           /\ attempt = FirstOk

\* C2: when every attempt fails and tries >= 1, the call makes exactly tries
\* attempts and raises the error of the last one, class and message kept.
C2_RaisesLastError ==
    (Finished /\ request.tries >= 1 /\ FirstOk = 0)
        => /\ attempt = request.tries
           /\ result = Raised(Error(request.script[request.tries], request.tries))

\* C8: a call (with tries >= 1) constructs exactly one transport, and every
\* attempt runs against it.
C8_OneTransport ==
    (step = "done" /\ request.tries >= 1)
        => /\ Len(transports) = 1
           /\ \A k \in 1..Len(used) : used[k] = 1

\* C9: when the call is over, no transport it opened is still open.
C9_AllReleased ==
    step = "done" => \A t \in 1..Len(transports) : transports[t].state # "open"

====
